---- MODULE Spec2Model ----
(***************************************************************************)
(* A model of factor_analysis.py: price retrieval, conversion of prices to *)
(* returns (get_returns / retrieve_factor_returns), the truncation of the  *)
(* fund returns, the VIF diagnostic, the OLS regressions and the           *)
(* LassoLarsIC / LassoLars selection, run as the script's execute section  *)
(* runs them.                                                              *)
(*                                                                         *)
(* Dates are 1..MaxDate; calendar month m holds the dates                  *)
(* (m-1)*DaysPerMonth+1 .. m*DaysPerMonth.  A number is a fraction <<n,d>> *)
(* in lowest terms with d > 0, and NaN is <<0,0>>.  A DataFrame is a       *)
(* record [index, columns, values] with values[r][c] the cell of row r and *)
(* column c.  The pandas / statsmodels / scikit-learn calls are modelled   *)
(* by what the versions the script runs on do (it needs resample('M') and  *)
(* the normalize= parameter, so pandas < 3 and scikit-learn < 1.4).        *)
(***************************************************************************)
EXTENDS Integers, Sequences, FiniteSets, TLC

VARIABLES prices, frequency, pc, error, df_funds, df_factors, vif, lin_reg,
          simple_lr_results, results, lasso_i, lasso_lars_ic

vars == <<prices, frequency, pc, error, df_funds, df_factors, vif, lin_reg,
          simple_lr_results, results, lasso_i, lasso_lars_ic>>

-----------------------------------------------------------------------------
(* Bounds of the model *)

MaxDate == 5
DaysPerMonth == 2
MaxPathLen == 3
MaxFit == 2

-----------------------------------------------------------------------------
(* Module-level configuration of the script (shortened lists) *)

tickers == <<"QIACX", "VTSAX">>

factors_dict == << <<"US Growth", "VUG">>, <<"US Value", "VTV">> >>

dict_keys(d) == [i \in 1..Len(d) |-> d[i][1]]

dict_values(d) == [i \in 1..Len(d) |-> d[i][2]]

AllSymbols == {tickers[i] : i \in 1..Len(tickers)}
                \cup {factors_dict[i][2] : i \in 1..Len(factors_dict)}

Dates == 1..MaxDate

-----------------------------------------------------------------------------
(* Numbers *)

NaN == <<0, 0>>

IsNaN(v) == v = NaN

Abs(n) == IF n < 0 THEN -n ELSE n

RECURSIVE GCD(_, _)
GCD(a, b) == IF b = 0 THEN a ELSE GCD(b, a % b)

\* n/d in lowest terms, d > 0
Frac(n, d) == LET g == GCD(Abs(n), d) IN <<n \div g, d \div g>>

Num(p) == <<p, 1>>

\* cur / prev - 1, as DataFrame.pct_change computes it on two non-NaN cells
PctOf(cur, prev) ==
    Frac(cur[1] * prev[2] - prev[1] * cur[2], prev[1] * cur[2])

-----------------------------------------------------------------------------
(* Sequences *)

SeqToSet(s) == {s[i] : i \in 1..Len(s)}

Min(S) == CHOOSE x \in S : \A y \in S : x <= y

Max(S) == CHOOSE x \in S : \A y \in S : x >= y

RECURSIVE SortedSeq(_)
SortedSeq(S) == IF S = {} THEN <<>>
                ELSE LET m == Min(S) IN <<m>> \o SortedSeq(S \ {m})

\* rows of s whose position satisfies keep
SelectRows(s, keep(_)) ==
    LET F[i \in 0..Len(s)] ==
            IF i = 0 THEN <<>>
            ELSE IF keep(i) THEN Append(F[i - 1], s[i]) ELSE F[i - 1]
    IN F[Len(s)]

-----------------------------------------------------------------------------
(* DataFrames *)

EmptyFrame == [index |-> <<>>, columns |-> <<>>, values |-> <<>>]

NRows(df) == Len(df.index)

NCols(df) == Len(df.columns)

RowAt(df, label) ==
    IF label \in SeqToSet(df.index)
    THEN df.values[CHOOSE r \in 1..NRows(df) : df.index[r] = label]
    ELSE [c \in 1..NCols(df) |-> NaN]

Column(df, c) == [r \in 1..NRows(df) |-> df.values[r][c]]

\* a concat that puts the columns of the new table first
concat_new_first(a, b) ==
    LET idx == SortedSeq(SeqToSet(a.index) \cup SeqToSet(b.index))
    IN [index |-> idx,
        columns |-> b.columns \o a.columns,
        values |-> [r \in 1..Len(idx) |-> RowAt(b, idx[r]) \o RowAt(a, idx[r])]]

\* pd.concat([a, b], axis=1): outer join on the index, which comes out sorted
\* for a DatetimeIndex; the columns of b follow the columns of a
concat(a, b) ==
    LET idx == SortedSeq(SeqToSet(a.index) \cup SeqToSet(b.index))
    IN [index |-> idx,
        columns |-> a.columns \o b.columns,
        values |-> [r \in 1..Len(idx) |-> RowAt(a, idx[r]) \o RowAt(b, idx[r])]]

\* DataFrame.ffill(): each NaN takes the last non-NaN above it in its column
ffill(df) ==
    LET F[r \in 0..NRows(df)] ==
            IF r = 0 THEN [c \in 1..NCols(df) |-> NaN]
            ELSE [c \in 1..NCols(df) |->
                    IF IsNaN(df.values[r][c]) THEN F[r - 1][c] ELSE df.values[r][c]]
    IN [df EXCEPT !.values = [r \in 1..NRows(df) |-> F[r]]]

\* a pct_change that does not fill (fill_method=None)
pct_change_no_fill(df) ==
    [df EXCEPT !.values =
       [r \in 1..NRows(df) |->
          [c \in 1..NCols(df) |->
             IF r = 1 THEN NaN
             ELSE IF IsNaN(df.values[r][c]) \/ IsNaN(df.values[r - 1][c])
                  THEN NaN
                  ELSE PctOf(df.values[r][c], df.values[r - 1][c])]]]

\* DataFrame.pct_change() with its default fill_method='pad'
pct_change(df) ==
    LET filled == ffill(df)
    IN [df EXCEPT !.values =
          [r \in 1..NRows(df) |->
             [c \in 1..NCols(df) |->
                IF r = 1 THEN NaN
                ELSE IF IsNaN(filled.values[r][c]) \/ IsNaN(filled.values[r - 1][c])
                     THEN NaN
                     ELSE PctOf(filled.values[r][c], filled.values[r - 1][c])]]]

RowHasNaN(df, r) == \E c \in 1..NCols(df) : IsNaN(df.values[r][c])

\* DataFrame.dropna(): the rows with no NaN
dropna(df) ==
    LET keep(r) == ~RowHasNaN(df, r)
    IN [df EXCEPT !.index = SelectRows(df.index, keep),
                  !.values = SelectRows(df.values, keep)]

MonthOf(d) == ((d - 1) \div DaysPerMonth) + 1

MonthEnd(m) == m * DaysPerMonth

\* DataFrame.resample('M').last(): one row per calendar month from the month
\* of the first row to the month of the last row, labelled with the month's
\* end, each cell the last non-NaN cell of its column within the month
resample_last(df) ==
    IF NRows(df) = 0 THEN df
    ELSE LET first == MonthOf(df.index[1])
             last == MonthOf(df.index[NRows(df)])
             n == last - first + 1
             InMonth(m) == {r \in 1..NRows(df) : MonthOf(df.index[r]) = m}
             Cell(m, c) ==
                 LET rs == {r \in InMonth(m) : ~IsNaN(df.values[r][c])}
                 IN IF rs = {} THEN NaN ELSE df.values[Max(rs)][c]
         IN [index |-> [k \in 1..n |-> MonthEnd(first + k - 1)],
             columns |-> df.columns,
             values |-> [k \in 1..n |-> [c \in 1..NCols(df) |-> Cell(first + k - 1, c)]]]

\* df.columns = names
set_columns(df, names) == [df EXCEPT !.columns = names]

\* df.loc[label:] on a sorted index
loc_from(df, label) ==
    LET keep(r) == df.index[r] >= label
    IN [df EXCEPT !.index = SelectRows(df.index, keep),
                  !.values = SelectRows(df.values, keep)]

-----------------------------------------------------------------------------
(* Results of calls that may raise *)

Ok(v) == [ok |-> TRUE, value |-> v, error |-> "none", at |-> "none"]

Raise(e, where) == [ok |-> FALSE, value |-> EmptyFrame, error |-> e, at |-> where]

NoError == [error |-> "none", at |-> "none"]

ErrorOf(r) == [error |-> r.error, at |-> r.at]

-----------------------------------------------------------------------------
(* Price retrieval and returns *)

\* get_stock_prices raises when the provider has nothing for the symbol
\* (urlopen's HTTPError, or set_index('date') on an empty table)
RetrievalFails(symbol) == DOMAIN prices[symbol] = {}

\* get_stock_prices(symbol, ...)[['adjusted_close']], index sorted
get_stock_prices(symbol) ==
    LET idx == SortedSeq(DOMAIN prices[symbol])
    IN [index |-> idx,
        columns |-> <<"adjusted_close">>,
        values |-> [r \in 1..Len(idx) |-> <<Num(prices[symbol][idx[r]])>>]]

\* the loop of get_returns / retrieve_factor_returns: df_prices after the
\* first n symbols
RECURSIVE PriceTable(_, _)
PriceTable(symbols, n) ==
    IF n = 0 THEN EmptyFrame
    ELSE concat(PriceTable(symbols, n - 1), get_stock_prices(symbols[n]))

\* the match on frequency
ReturnsOf(df_prices, freq) ==
    IF freq = "D" THEN dropna(pct_change(df_prices))
    ELSE dropna(pct_change(resample_last(df_prices)))

FirstFailing(symbols) ==
    symbols[Min({i \in 1..Len(symbols) : RetrievalFails(symbols[i])})]

get_returns(tks, freq) ==
    IF \E i \in 1..Len(tks) : RetrievalFails(tks[i])
    THEN Raise("PriceRetrievalError", FirstFailing(tks))
    ELSE Ok(set_columns(ReturnsOf(PriceTable(tks, Len(tks)), freq), tks))

retrieve_factor_returns(factors, freq) ==
    LET symbols == dict_values(factors)
    IN IF \E i \in 1..Len(symbols) : RetrievalFails(symbols[i])
       THEN Raise("PriceRetrievalError", FirstFailing(symbols))
       ELSE Ok(set_columns(ReturnsOf(PriceTable(symbols, Len(symbols)), freq),
                           dict_keys(factors)))

-----------------------------------------------------------------------------
(* statsmodels: add_constant, OLS parameter names, VIF *)

Zero == Num(0)

One == Num(1)

ArrCols(x) == IF Len(x) = 0 THEN 0 ELSE Len(x[1])

ArrColumn(x, c) == [r \in 1..Len(x) |-> x[r][c]]

\* var(column) == 0
IsConstCol(col) == \A r \in 1..Len(col) : col[r] = col[1]

\* ptp(column) == 0 and the column is not zero
IsNonzeroConst(col) == IsConstCol(col) /\ \E r \in 1..Len(col) : col[r] # Zero

\* add_constant(ndarray), has_constant='skip': a column of ones is prepended
\* unless some column is already a non-zero constant
add_constant_array(x) ==
    IF \E c \in 1..ArrCols(x) : IsNonzeroConst(ArrColumn(x, c))
    THEN x
    ELSE [r \in 1..Len(x) |-> <<One>> \o x[r]]

\* add_constant(DataFrame), which is add_trend(trend='c', has_constant='skip')
add_constant_frame(X) ==
    IF \E c \in 1..NCols(X) : NRows(X) > 0 /\ IsNonzeroConst(Column(X, c))
    THEN X
    ELSE [index |-> X.index,
          columns |-> <<"const">> \o X.columns,
          values |-> [r \in 1..NRows(X) |-> <<One>> \o X.values[r]]]

\* the names statsmodels gives the columns of an ndarray exog: 'const' for
\* the first column of zero variance, x1, x2, ... for the others
make_exog_names(x) ==
    LET k == ArrCols(x)
        Z == {c \in 1..k : IsConstCol(ArrColumn(x, c))}
    IN IF Z = {} THEN [i \in 1..k |-> "x" \o ToString(i)]
       ELSE [i \in 1..k |->
               IF i < Min(Z) THEN "x" \o ToString(i)
               ELSE IF i = Min(Z) THEN "const"
               ELSE "x" \o ToString(i - 1)]

\* a fitted number stands for the least-squares problem that determines it:
\* the coefficient of column `column` of exog in the fit of endog
Coef(j, x, y) == [column |-> j, alpha |-> -1, exog |-> x, endog |-> y]

MissingCoef == [column |-> 0, alpha |-> -1, exog |-> <<>>, endog |-> <<>>]

Series(df, c) == [name |-> df.columns[c], index |-> df.index, values |-> Column(df, c)]

-----------------------------------------------------------------------------
(* regression_vif *)

\* X = add_constant(X) rebinds the local name; the caller's table is the
\* field X of the result
regression_vif(X) ==
    LET Xc == add_constant_frame(X)
    IN [vif |-> [i \in 1..NCols(Xc) |->
                   [variables |-> Xc.columns[i],
                    VIF |-> [column |-> i, exog |-> Xc.values]]],
        X |-> X]

-----------------------------------------------------------------------------
(* linear_reg and multiple_lin_reg *)

\* a linear_reg that adds the constant to the caller's table in place
linear_reg_in_place(y, x, add_const) ==
    LET xc == [index |-> x.index,
               columns |-> <<"const">> \o x.columns,
               values |-> [r \in 1..NRows(x) |-> <<One>> \o x.values[r]]]
        exog == xc.values
        names == make_exog_names(exog)
    IN IF Len(exog) = 0 \/ Len(y.values) # Len(exog)
       THEN [ok |-> FALSE, error |-> "ValueError", params |-> <<>>, x |-> x]
       ELSE [ok |-> TRUE, error |-> "none",
             params |-> [j \in 1..Len(names) |->
                           [name |-> names[j], value |-> Coef(j, exog, y.values)]],
             x |-> xc]

\* linear_reg(y, x, add_const): the field x of the result is the caller's
\* table after the call
linear_reg(y, x, add_const) ==
    LET xv == x.values
    IN IF Len(xv) = 0
       THEN [ok |-> FALSE, error |-> "ValueError", params |-> <<>>, x |-> x]
       ELSE LET exog == add_constant_array(xv)
                names == make_exog_names(exog)
            IN IF Len(y.values) # Len(exog)
               THEN [ok |-> FALSE, error |-> "ValueError", params |-> <<>>, x |-> x]
               ELSE [ok |-> TRUE, error |-> "none",
                     params |-> [j \in 1..Len(names) |->
                                   [name |-> names[j], value |-> Coef(j, exog, y.values)]],
                     x |-> x]

\* the loop of multiple_lin_reg over the first n columns of returns
RECURSIVE MLRLoop(_, _, _)
MLRLoop(returns, factor_returns, n) ==
    IF n = 0
    THEN [ok |-> TRUE, error |-> "none", at |-> "none", cols |-> <<>>,
          factor_returns |-> factor_returns]
    ELSE LET prev == MLRLoop(returns, factor_returns, n - 1)
         IN IF ~prev.ok THEN prev
            ELSE LET lm == linear_reg(Series(returns, n), prev.factor_returns, TRUE)
                 IN IF ~lm.ok
                    THEN [ok |-> FALSE, error |-> lm.error, at |-> returns.columns[n],
                          cols |-> prev.cols, factor_returns |-> lm.x]
                    ELSE [ok |-> TRUE, error |-> "none", at |-> "none",
                          cols |-> Append(prev.cols, lm.params),
                          factor_returns |-> lm.x]

\* the labels of the concatenated params, in order of first appearance
RECURSIVE ParamLabels(_, _)
ParamLabels(cols, n) ==
    IF n = 0 THEN <<>>
    ELSE LET before == ParamLabels(cols, n - 1)
             keep(j) == cols[n][j].name \notin SeqToSet(before)
         IN before \o [j \in 1..Len(SelectRows(cols[n], keep)) |->
                         SelectRows(cols[n], keep)[j].name]

ParamAt(params, label) ==
    IF \E j \in 1..Len(params) : params[j].name = label
    THEN params[CHOOSE j \in 1..Len(params) : params[j].name = label].value
    ELSE MissingCoef

multiple_lin_reg(returns, factor_returns, add_const) ==
    LET loop == MLRLoop(returns, factor_returns, NCols(returns))
        labels == ParamLabels(loop.cols, Len(loop.cols))
        keep(j) == labels[j] # "const"
        kept == SelectRows(labels, keep)
        fail(e, who) == [ok |-> FALSE, error |-> e, at |-> who, value |-> EmptyFrame,
                         returns |-> returns, factor_returns |-> loop.factor_returns]
    IN IF ~loop.ok THEN fail(loop.error, loop.at)
       ELSE IF "const" \notin SeqToSet(labels) THEN fail("KeyError", "none")
       ELSE IF Len(kept) # NCols(factor_returns) THEN fail("ValueError", "none")
       ELSE [ok |-> TRUE, error |-> "none", at |-> "none",
             value |-> [index |-> loop.factor_returns.columns,
                        columns |-> returns.columns,
                        values |-> [r \in 1..Len(kept) |->
                                      [c \in 1..Len(loop.cols) |->
                                         ParamAt(loop.cols[c], kept[r])]]],
             returns |-> returns,
             factor_returns |-> loop.factor_returns]

-----------------------------------------------------------------------------
(* LassoLarsIC and LassoLars *)

\* A regularization path is a sequence of steps [alpha, df, fit]: alpha the
\* penalty of the step, df the number of non-zero coefficients, fit the
\* goodness-of-fit term of the criterion (increasing in the residual sum of
\* squares).  Along a path alpha decreases, the fit term does not increase,
\* the first step is the null model and each step adds or drops one variable.
IsPath(p, n_features) ==
    /\ Len(p) >= 2
    /\ p[1].df = 0
    /\ \A k \in 1..Len(p) : p[k].alpha = Len(p) - k /\ p[k].df \in 0..n_features
    /\ \A k \in 1..(Len(p) - 1) :
          /\ p[k + 1].fit <= p[k].fit
          /\ p[k + 1].df - p[k].df \in {-1, 1}

Paths(n_features) ==
    UNION {{[k \in 1..L |-> [alpha |-> L - k, df |-> d[k], fit |-> f[k]]] :
               d \in [1..L -> 0..n_features], f \in [1..L -> 0..MaxFit]} : L \in 2..MaxPathLen}

\* the paths of a fit on the script's factors
ScriptPaths == {p \in Paths(Len(factors_dict)) : IsPath(p, Len(factors_dict))}

\* criterion_ of LassoLarsIC(criterion='aic'): fit term + 2 * df
criterion(step) == step.fit + 2 * step.df

\* an argmin that takes the last position of the minimum
argmin_last(p) ==
    Max({k \in 1..Len(p) : \A j \in 1..Len(p) : criterion(p[k]) <= criterion(p[j])})

\* np.argmin: the first position of the minimum
argmin(p) ==
    Min({k \in 1..Len(p) : \A j \in 1..Len(p) : criterion(p[k]) <= criterion(p[j])})

\* lasso_lars_ic[-1].alpha_
alpha_of(p) == p[argmin(p)].alpha

\* LassoLars(alpha=alpha, normalize=True).fit(X, y).coef_
LassoLars(alpha, X, y) ==
    [j \in 1..NCols(X) |->
       [column |-> j, alpha |-> alpha, exog |-> X.values, endog |-> y.values]]

\* one iteration of the loop of lasso_lars_regression, given the path the
\* LARS algorithm finds: the column of exposures of the ticker
lasso_fit(y, factor_returns, path) ==
    LET X == factor_returns
        alpha_aic == alpha_of(path)
    IN [alpha_aic |-> alpha_aic,
        coef |-> LassoLars(alpha_aic, X, y),
        factor_returns |-> factor_returns]

\* pd.concat([df_results, df_temp], axis=1) for a column indexed like df_results
add_column(df_results, index, name, col) ==
    [index |-> index,
     columns |-> Append(df_results.columns, name),
     values |-> [r \in 1..Len(index) |->
                   (IF r <= Len(df_results.values) THEN df_results.values[r] ELSE <<>>)
                     \o <<col[r]>>]]

-----------------------------------------------------------------------------
(* The provider's data *)

Patterns == {"flat", "linear", "geometric"}

PriceAt(pattern, d) ==
    IF pattern = "flat" THEN 2
    ELSE IF pattern = "linear" THEN d
    ELSE 2 ^ (d - 1)

SeriesOf(observed, pattern) == [d \in observed |-> PriceAt(pattern, d)]

Months == 1..MonthOf(MaxDate)

\* a history without gaps from a first to a last available month (none when
\* first > last)
Histories == {{d \in Dates : a <= MonthOf(d) /\ MonthOf(d) <= b} : a \in Months, b \in Months}

ScriptPattern(symbol) ==
    IF symbol = "QIACX" THEN "geometric"
    ELSE IF symbol = "VTSAX" THEN "flat"
    ELSE IF symbol = "VUG" THEN "linear"
    ELSE "geometric"

InitCommon ==
    /\ pc = "get_returns"
    /\ error = NoError
    /\ df_funds = EmptyFrame
    /\ df_factors = EmptyFrame
    /\ vif = <<>>
    /\ lin_reg = <<>>
    /\ simple_lr_results = EmptyFrame
    /\ results = EmptyFrame
    /\ lasso_i = 0
    /\ lasso_lars_ic = <<>>

\* the script: monthly returns (the default frequency) of histories without gaps
Init ==
    /\ prices \in {[s \in AllSymbols |-> SeriesOf(h[s], ScriptPattern(s))] :
                      h \in [AllSymbols -> Histories]}
    /\ frequency = "M"
    /\ InitCommon

\* the two returns functions on arbitrary observation dates, both frequencies;
\* the i-th factor has the history of the i-th ticker
InitReturns ==
    /\ prices \in {[s \in AllSymbols |->
                      LET i == CHOOSE k \in 1..Len(tickers) :
                                  s = tickers[k] \/ s = factors_dict[k][2]
                      IN SeriesOf(o[i], p[i])] :
                      o \in [1..Len(tickers) -> SUBSET Dates],
                      p \in [1..Len(tickers) -> Patterns]}
    /\ frequency \in {"D", "M"}
    /\ InitCommon

-----------------------------------------------------------------------------
(* The execute section, one action per statement *)

Fail(e) ==
    /\ pc' = "error"
    /\ error' = e

\* df_funds = get_returns(tickers, start_date, end_date)
GetReturns ==
    /\ pc = "get_returns"
    /\ LET r == get_returns(tickers, frequency)
       IN IF r.ok
          THEN /\ df_funds' = r.value
               /\ pc' = "retrieve_factor_returns"
               /\ UNCHANGED error
          ELSE /\ Fail(ErrorOf(r))
               /\ UNCHANGED df_funds
    /\ UNCHANGED <<prices, frequency, df_factors, vif, lin_reg, simple_lr_results,
                   results, lasso_i, lasso_lars_ic>>

\* df_factors = retrieve_factor_returns(factors_dict, start_date, end_date)
RetrieveFactorReturns ==
    /\ pc = "retrieve_factor_returns"
    /\ LET r == retrieve_factor_returns(factors_dict, frequency)
       IN IF r.ok
          THEN /\ df_factors' = r.value
               /\ pc' = "truncate"
               /\ UNCHANGED error
          ELSE /\ Fail(ErrorOf(r))
               /\ UNCHANGED df_factors
    /\ UNCHANGED <<prices, frequency, df_funds, vif, lin_reg, simple_lr_results,
                   results, lasso_i, lasso_lars_ic>>

\* df_funds = df_funds.loc[df_factors.index[0]:]
Truncate ==
    /\ pc = "truncate"
    /\ IF NRows(df_factors) = 0
       THEN /\ Fail([error |-> "IndexError", at |-> "none"])
            /\ UNCHANGED df_funds
       ELSE /\ df_funds' = loc_from(df_funds, df_factors.index[1])
            /\ pc' = "regression_vif"
            /\ UNCHANGED error
    /\ UNCHANGED <<prices, frequency, df_factors, vif, lin_reg, simple_lr_results,
                   results, lasso_i, lasso_lars_ic>>

\* regression_vif(df_factors)
RegressionVif ==
    /\ pc = "regression_vif"
    /\ LET r == regression_vif(df_factors)
       IN /\ vif' = r.vif
          /\ df_factors' = r.X
    /\ pc' = "linear_reg"
    /\ UNCHANGED <<prices, frequency, error, df_funds, lin_reg, simple_lr_results,
                   results, lasso_i, lasso_lars_ic>>

\* lin_reg = linear_reg(df_funds.iloc[:, 3], df_factors, True): the last ticker
LinearReg ==
    /\ pc = "linear_reg"
    /\ LET r == linear_reg(Series(df_funds, Len(tickers)), df_factors, TRUE)
       IN /\ df_factors' = r.x
          /\ IF r.ok
             THEN /\ lin_reg' = r.params
                  /\ pc' = "multiple_lin_reg"
                  /\ UNCHANGED error
             ELSE /\ Fail([error |-> r.error, at |-> tickers[Len(tickers)]])
                  /\ UNCHANGED lin_reg
    /\ UNCHANGED <<prices, frequency, df_funds, vif, simple_lr_results, results,
                   lasso_i, lasso_lars_ic>>

\* simple_lr_results = multiple_lin_reg(df_funds, df_factors, True)
MultipleLinReg ==
    /\ pc = "multiple_lin_reg"
    /\ LET r == multiple_lin_reg(df_funds, df_factors, TRUE)
       IN /\ df_factors' = r.factor_returns
          /\ df_funds' = r.returns
          /\ IF r.ok
             THEN /\ simple_lr_results' = r.value
                  /\ pc' = "lasso_lars_regression"
                  /\ lasso_i' = 1
                  /\ UNCHANGED error
             ELSE /\ Fail([error |-> r.error, at |-> r.at])
                  /\ UNCHANGED <<simple_lr_results, lasso_i>>
    /\ UNCHANGED <<prices, frequency, vif, lin_reg, results, lasso_lars_ic>>

\* one iteration of the loop of results = lasso_lars_regression(df_funds,
\* df_factors), with the path the LARS algorithm computes for the ticker
LassoIteration ==
    /\ pc = "lasso_lars_regression"
    /\ lasso_i <= NCols(df_funds)
    /\ IF NRows(df_factors) = 0 \/ NRows(df_funds) # NRows(df_factors)
       THEN /\ Fail([error |-> "ValueError", at |-> df_funds.columns[lasso_i]])
            /\ UNCHANGED <<df_factors, results, lasso_i, lasso_lars_ic>>
       ELSE \E path \in ScriptPaths :
               LET r == lasso_fit(Series(df_funds, lasso_i), df_factors, path)
               IN /\ lasso_lars_ic' = path
                  /\ results' = add_column(results, df_factors.columns,
                                           df_funds.columns[lasso_i], r.coef)
                  /\ df_factors' = r.factor_returns
                  /\ lasso_i' = lasso_i + 1
                  /\ UNCHANGED <<pc, error>>
    /\ UNCHANGED <<prices, frequency, df_funds, vif, lin_reg, simple_lr_results>>

\* LassoLarsIC of scikit-learn 1.1 to 1.3 estimates the noise variance and
\* raises when n_samples <= n_features + 1; scikit-learn 1.0 does not
LassoNoiseVarianceError ==
    /\ pc = "lasso_lars_regression"
    /\ lasso_i <= NCols(df_funds)
    /\ NRows(df_factors) <= NCols(df_factors) + 1
    /\ Fail([error |-> "ValueError", at |-> df_funds.columns[lasso_i]])
    /\ UNCHANGED <<prices, frequency, df_funds, df_factors, vif, lin_reg,
                   simple_lr_results, results, lasso_i, lasso_lars_ic>>

\* return df_results
LassoReturn ==
    /\ pc = "lasso_lars_regression"
    /\ lasso_i > NCols(df_funds)
    /\ pc' = "done"
    /\ UNCHANGED <<prices, frequency, error, df_funds, df_factors, vif, lin_reg,
                   simple_lr_results, results, lasso_i, lasso_lars_ic>>

Next ==
    \/ GetReturns
    \/ RetrieveFactorReturns
    \/ Truncate
    \/ RegressionVif
    \/ LinearReg
    \/ MultipleLinReg
    \/ LassoIteration
    \/ LassoNoiseVarianceError
    \/ LassoReturn

Spec == Init /\ [][Next]_vars

NextReturns ==
    \/ GetReturns
    \/ RetrieveFactorReturns

SpecReturns == InitReturns /\ [][NextReturns]_vars

-----------------------------------------------------------------------------
(* Vocabulary of the properties *)

Observed(s) == DOMAIN prices[s]

Symbols(n) == IF n = "funds" THEN tickers ELSE dict_values(factors_dict)

Table(n) == IF n = "funds" THEN df_funds ELSE df_factors

TableNames == {"funds", "factors"}

\* the returns function has returned table n (its columns are named on return)
Returned(n) == NCols(Table(n)) > 0

\* every symbol of the batch was retrieved
AllRetrieved(n) == \A i \in 1..Len(Symbols(n)) : Observed(Symbols(n)[i]) # {}

FirstObserved(s) == Min(Observed(s))

LastObserved(s) == Max(Observed(s))

\* the price of s on the last date of month m on which s was observed
LastPriceInMonth(s, m) == prices[s][Max({d \in Observed(s) : MonthOf(d) = m})]

ObservedInMonth(s, m) == \E d \in Observed(s) : MonthOf(d) = m

-----------------------------------------------------------------------------
(* Properties of get_returns and retrieve_factor_returns (SpecReturns) *)

\* C3: with daily frequency, every value of a returned table is
\* price[t]/price[t'] - 1 for its series, where t is the row's date, the
\* series was observed on t, and t' is the previous date on which that same
\* series was observed; no value sits on a date the series was not observed.
C3_ReturnsBetweenObservedDates ==
    frequency = "D" =>
      \A n \in TableNames : \A c \in 1..NCols(Table(n)) : \A r \in 1..NRows(Table(n)) :
         LET s == Symbols(n)[c]
             t == Table(n).index[r]
             before == {d \in Observed(s) : d < t}
         IN /\ t \in Observed(s)
            /\ before # {}
            /\ Table(n).values[r][c]
                 = Frac(prices[s][t] - prices[s][Max(before)], prices[s][Max(before)])

\* C6: with monthly frequency, every value of a returned table belongs to a
\* calendar month in which its series was observed, and is the percentage
\* change from the last price the series had in the previous calendar month
\* to the last price it had in that month.
C6_MonthlyLastObserved ==
    frequency = "M" =>
      \A n \in TableNames : \A c \in 1..NCols(Table(n)) : \A r \in 1..NRows(Table(n)) :
         LET s == Symbols(n)[c]
             m == MonthOf(Table(n).index[r])
         IN /\ ObservedInMonth(s, m)
            /\ ObservedInMonth(s, m - 1)
            /\ Table(n).values[r][c]
                 = Frac(LastPriceInMonth(s, m) - LastPriceInMonth(s, m - 1),
                        LastPriceInMonth(s, m - 1))

\* the index of the daily, or monthly-resampled, price series of s alone
OwnIndex(s) ==
    IF frequency = "D" THEN SortedSeq(Observed(s))
    ELSE [k \in 1..(MonthOf(LastObserved(s)) - MonthOf(FirstObserved(s)) + 1) |->
            MonthEnd(MonthOf(FirstObserved(s)) + k - 1)]

JointLabels(n) ==
    LET S == SeqToSet(Symbols(n))
        all == UNION {Observed(s) : s \in S}
    IN IF frequency = "D" THEN all
       ELSE {MonthEnd(m) : m \in MonthOf(Min(all))..MonthOf(Max(all))}

LatestStart(n) ==
    LET S == SeqToSet(Symbols(n))
    IN IF frequency = "D" THEN Max({FirstObserved(s) : s \in S})
       ELSE MonthEnd(Max({MonthOf(FirstObserved(s)) : s \in S}))

Called(n) ==
    IF n = "funds" THEN pc # "get_returns"
    ELSE pc = "truncate" \/ (pc = "error" /\ Returned("funds"))

\* C5: when a series of the batch has fewer than 2 observations, the returns
\* function fails with InsufficientDataError and returns no table.
C5_InsufficientDataError ==
    \A n \in TableNames :
       (/\ Called(n)
        /\ AllRetrieved(n)
        /\ \E i \in 1..Len(Symbols(n)) : Cardinality(Observed(Symbols(n)[i])) < 2)
         => /\ ~Returned(n)
            /\ pc = "error"
            /\ error.error = "InsufficientDataError"

-----------------------------------------------------------------------------
(* Properties of the execute section (Spec) *)

AfterTruncate ==
    pc \in {"regression_vif", "linear_reg", "multiple_lin_reg",
            "lasso_lars_regression", "done"}

\* C1: after the truncation, the fund returns and the factor returns handed
\* to the regressions have exactly the same index (stated for histories of
\* two months or more, so that every series has a return).
C1_SameIndexAfterAlignment ==
    (AfterTruncate /\ \A s \in AllSymbols : MonthOf(FirstObserved(s)) < MonthOf(LastObserved(s)))
       => df_funds.index = df_factors.index

\* C2: when the retrieval of one ticker's prices fails, every other ticker of
\* the batch still has its column in the returns and in both exposure tables,
\* and the error names the failing ticker only.
C2_FailureReportedPerInstrument ==
    (pc = "error" /\ error.error = "PriceRetrievalError") =>
       \A i \in 1..Len(tickers) :
          (tickers[i] # error.at /\ ~RetrievalFails(tickers[i]))
             => /\ tickers[i] \in SeqToSet(df_funds.columns)
                /\ tickers[i] \in SeqToSet(simple_lr_results.columns)
                /\ tickers[i] \in SeqToSet(results.columns)

\* the price of s at the end of month m as the returns functions see it: the
\* last price observed up to the end of the month
PriceUpToMonth(s, m) == prices[s][Max({d \in Observed(s) : MonthOf(d) <= m})]

\* table n carries the names in their configured order, and the column named
\* after symbol s holds the monthly returns of the prices of s
LabelledByOwnPrices(n) ==
    /\ Table(n).columns = (IF n = "funds" THEN tickers ELSE dict_keys(factors_dict))
    /\ \A c \in 1..NCols(Table(n)) : \A r \in 1..NRows(Table(n)) :
          LET s == Symbols(n)[c]
              m == MonthOf(Table(n).index[r])
          IN Table(n).values[r][c]
               = Frac(PriceUpToMonth(s, m) - PriceUpToMonth(s, m - 1),
                      PriceUpToMonth(s, m - 1))

\* exposure table t has one row per factor name in the configured order, one
\* column per ticker in the order of the ticker list, and the cell of factor j
\* and ticker i is the coefficient of factor j's returns in the fit of ticker
\* i's returns
ExposuresLabelled(t) ==
    /\ NCols(t) > 0 => t.index = dict_keys(factors_dict)
    /\ \A i \in 1..NCols(t) :
          /\ t.columns[i] = tickers[i]
          /\ \A j \in 1..Len(t.index) :
                /\ t.values[j][i].endog = Column(df_funds, i)
                /\ ArrColumn(t.values[j][i].exog, t.values[j][i].column)
                     = Column(df_factors, j)

\* C7: in the factor returns, the fund returns, the dense exposures and the
\* sparse exposures, every value sits under the name of the factor and of the
\* instrument whose price data it was computed from; rows follow the order of
\* the factor mapping and columns the order of the ticker list.
C7_LabelsFollowData ==
    /\ \A n \in TableNames : Returned(n) => LabelledByOwnPrices(n)
    /\ ExposuresLabelled(simple_lr_results)
    /\ ExposuresLabelled(results)

C7_Witness ==
    /\ pc = "done"
    /\ NCols(results) = Len(tickers)
    /\ NCols(simple_lr_results) = Len(tickers)
    /\ Column(df_factors, 1) # Column(df_factors, 2)
    /\ Column(df_funds, 1) # Column(df_funds, 2)

\* C8: the VIF table has one entry for the constant, under the name const,
\* followed by one entry per factor column in the order of the columns.
C8_VifTableComplete ==
    Len(vif) > 0 =>
      /\ Len(vif) = NCols(df_factors) + 1
      /\ vif[1].variables = "const"
      /\ \A i \in 1..NCols(df_factors) :
            i + 1 <= Len(vif) /\ vif[i + 1].variables = df_factors.columns[i]

MinimalSteps(p) ==
    {k \in 1..Len(p) : \A j \in 1..Len(p) : criterion(p[k]) <= criterion(p[j])}

\* C9: the alpha of the refit of a ticker is the alpha of a path step of
\* minimal AIC, and among the steps of minimal AIC that step is the earliest
\* and has the smallest number of active coefficients.
C9_EarliestMinimalAic ==
    (pc \in {"lasso_lars_regression", "done"} /\ lasso_i > 1) =>
       \E k \in MinimalSteps(lasso_lars_ic) :
          /\ \A j \in 1..Len(results.index) :
                results.values[j][lasso_i - 1].alpha = lasso_lars_ic[k].alpha
          /\ \A j \in MinimalSteps(lasso_lars_ic) :
                k <= j /\ lasso_lars_ic[k].df <= lasso_lars_ic[j].df

\* a fit whose path has two steps of minimal AIC with different numbers of
\* active coefficients
C9_Witness ==
    /\ pc \in {"lasso_lars_regression", "done"}
    /\ lasso_i > 1
    /\ \E j, k \in MinimalSteps(lasso_lars_ic) :
          lasso_lars_ic[j].df # lasso_lars_ic[k].df

SubFrame(df, cs) ==
    [index |-> df.index,
     columns |-> [k \in 1..Len(cs) |-> df.columns[cs[k]]],
     values |-> [r \in 1..NRows(df) |-> [k \in 1..Len(cs) |-> df.values[r][cs[k]]]]]

Reversed(n) == [k \in 1..n |-> n + 1 - k]

\* C10: through the VIF diagnostic and the regressions the factor returns and
\* the fund returns stay the tables the returns functions and the truncation
\* produced, and the exposures of a ticker are those of a batch holding that
\* ticker alone and of the batch in reverse order.
C10_InputsUnchangedAndIndependent ==
    /\ (AfterTruncate \/ (pc = "error" /\ Len(vif) > 0)) =>
          /\ df_factors = retrieve_factor_returns(factors_dict, frequency).value
          /\ df_funds = loc_from(get_returns(tickers, frequency).value, df_factors.index[1])
    /\ \A i \in 1..NCols(simple_lr_results) :
          LET n == NCols(df_funds)
              alone == multiple_lin_reg(SubFrame(df_funds, <<i>>), df_factors, TRUE).value
              rev == multiple_lin_reg(SubFrame(df_funds, Reversed(n)), df_factors, TRUE).value
          IN /\ Column(simple_lr_results, i) = Column(alone, 1)
             /\ Column(simple_lr_results, i) = Column(rev, n + 1 - i)
    /\ \A i \in 1..NCols(results) : \A j \in 1..Len(results.index) :
          /\ results.values[j][i].exog = df_factors.values
          /\ results.values[j][i].endog = Column(df_funds, i)
          /\ results.values[j][i].column = j

C10_Witness ==
    /\ pc = "done"
    /\ NCols(simple_lr_results) = Len(tickers)
    /\ NCols(results) = Len(tickers)
    /\ NRows(df_factors) >= 2

====
